---- MODULE Spec2Model ----
(***************************************************************************)
(* A model of the Azure blob storage adapter (storage.py), its settings    *)
(* loader (config.py) and the local files the smoke test (test_blob.py)    *)
(* reads and writes.                                                       *)
(*                                                                         *)
(* Python strings that the code takes apart or concatenates are sequences  *)
(* of one-character strings; bytes are sequences of byte values.  The      *)
(* container and the local file system are dictionaries: functions whose   *)
(* DOMAIN is the set of keys (paths) that currently hold a value.          *)
(***************************************************************************)
EXTENDS Integers, Sequences, FiniteSets, TLC

VARIABLES
    container,    \* the backend container: blob name -> bytes
    files,        \* local files: path -> bytes
    dirs,         \* local directories that exist
    adapter,      \* the AzureBlobStorage instance (its three fields), or NoAdapter
    last,         \* the last adapter call: operation, arguments, outcome
    env,          \* process environment variables: field name -> value
    dotenv,       \* the .env file: field name -> value
    cache,        \* lru_cache of get_settings: <<>> or <<Settings instance>>
    settings,     \* storage.py's module global `settings`: <<>> before import
    loads,        \* number of Settings() constructions so far
    returned,     \* the Settings instances get_settings() has returned, in order
    now,          \* the UTC date of datetime.utcnow(): [year, month, day]
    ticks,        \* day changes of the clock so far
    paths,        \* the generate_storage_path calls made: url, prefix, date, result
    written       \* history: blob name -> bytes of its latest completed upload,
                  \* dropped when a delete of the name completes with True

storeVars == <<container, files, dirs, last, written>>
cfgVars   == <<env, dotenv, cache, settings, loads, returned>>
pathVars  == <<now, ticks, paths>>
vars == <<container, files, dirs, adapter, last, env, dotenv, cache, settings,
          loads, returned, now, ticks, paths, written>>

----------------------------------------------------------------------------
(* Bounds of the model *)

\* longest byte sequence uploaded or written
MaxLen == 1
\* most get_settings() calls in one process run
MaxCalls == 3
\* most day changes of the UTC clock in one run
MaxTicks == 1

----------------------------------------------------------------------------
(* Values *)

ByteVals == {0, 255}
Bytes == UNION {[1..n -> ByteVals] : n \in 0..MaxLen}

\* "test_folder/subfolder/hello_blob.txt" and a key outside that folder
KeyHello == <<"t", "/", "s", "/", "h">>
KeyOther == <<"u">>
Keys == {KeyHello, KeyOther}

\* list_blobs(prefix): None, "", "test_folder/", a prefix longer than a key
NoPrefix == <<"None">>
PrefixTest == <<"t", "/">>
Prefixes == {NoPrefix, <<>>, PrefixTest, <<"u", "/">>, KeyOther}

\* local paths as component sequences: "temp_test_file.txt", "out/downloaded.txt"
PathLocal == <<"temp">>
PathDown == <<"out", "down">>
LocalPaths == {PathLocal, PathDown}
Cwd == <<>>

\* what the backend does to a call: serve it, or fail it (network error,
\* permission denied)
Faults == {"none", "network", "permission"}

Dict(K, V) == UNION {[D -> V] : D \in SUBSET K}
Put(d, k, v) == [x \in DOMAIN d \cup {k} |-> IF x = k THEN v ELSE d[x]]
Remove(d, k) == [x \in DOMAIN d \ {k} |-> d[x]]

----------------------------------------------------------------------------
(* The backend SDK calls the adapter makes.  A call either takes effect   *)
(* and returns, or raises and leaves the container as it was; `fault` is   *)
(* what the backend does to this call besides its own checks.              *)

Ok(val, c) == [err |-> "none", val |-> val, c |-> c]
Err(e, c) == [err |-> e, val |-> "raised", c |-> c]

\* blob_client.upload_blob(data, overwrite=...)
upload_blob(c, k, data, overwrite, fault) ==
    IF fault # "none" THEN Err(fault, c)
    ELSE IF k \in DOMAIN c /\ ~overwrite THEN Err("ResourceExists", c)
    ELSE Ok("None", Put(c, k, data))

\* blob_client.delete_blob()
delete_blob(c, k, fault) ==
    IF fault # "none" THEN Err(fault, c)
    ELSE IF k \notin DOMAIN c THEN Err("ResourceNotFound", c)
    ELSE Ok("None", Remove(c, k))

\* blob_client.exists()
blob_exists(c, k, fault) ==
    IF fault # "none" THEN Err(fault, c) ELSE Ok(k \in DOMAIN c, c)

\* blob_client.download_blob().readall()
download_blob_readall(c, k, fault) ==
    IF fault # "none" THEN Err(fault, c)
    ELSE IF k \notin DOMAIN c THEN Err("ResourceNotFound", c)
    ELSE Ok(c[k], c)

\* str.startswith
StartsWith(s, p) == Len(p) <= Len(s) /\ SubSeq(s, 1, Len(p)) = p

\* every order in which the members of S can be yielded, each once
Orderings(S) ==
    {s \in [1..Cardinality(S) -> S] : \A i, j \in DOMAIN s : i # j => s[i] # s[j]}

\* container_client.list_blobs(name_starts_with=prefix), iterated to the end:
\* the possible results, the order being the backend's
container_list_blobs(c, prefix, fault) ==
    IF fault # "none" THEN {Err(fault, c)}
    ELSE LET match == {k \in DOMAIN c : prefix = NoPrefix \/ StartsWith(k, prefix)}
         IN  {Ok(names, c) : names \in Orderings(match)}

----------------------------------------------------------------------------
(* The local file system *)

\* os.path.dirname(os.path.abspath(p)), relative to the working directory
dirname(p) == SubSeq(p, 1, Len(p) - 1)

\* os.makedirs(d, exist_ok=True): d and every missing ancestor
makedirs(ds, d) == ds \cup {SubSeq(d, 1, i) : i \in 0..Len(d)}

\* open(p, "wb"): creates the file, or truncates the one there
open_wb(fs, p) == Put(fs, p, <<>>)

----------------------------------------------------------------------------
(* AzureBlobStorage: each method as the outcome of one call.               *)
(* An outcome is [err, ret, c] (with fs, ds where the method touches the   *)
(* local file system); err = "none" means the call returned ret.           *)

Return(v, c) == [err |-> "none", ret |-> v, c |-> c]
Raise(e, c) == [err |-> e, ret |-> "raised", c |-> c]

\* AzureBlobStorage.__init__
AzureBlobStorage(sas_url, sas_token, container_name) ==
    [sas_url |-> sas_url, sas_token |-> sas_token, container_name |-> container_name]

\* upload_blob(data) without overwrite=True
upload_no_overwrite(c, file_path, data, fault) ==
    LET r == upload_blob(c, file_path, data, FALSE, fault)
    IN  IF r.err # "none" THEN Raise(r.err, c) ELSE Return(file_path, r.c)

upload(c, file_path, data, fault) ==
    LET r == upload_blob(c, file_path, data, TRUE, fault)
    IN  IF r.err # "none" THEN Raise(r.err, c) ELSE Return(file_path, r.c)

\* a second f.read() on the open file, which yields b""
upload_from_file_reread(c, fs, source_path, dest_path, fault) ==
    IF source_path \notin DOMAIN fs THEN Raise("FileNotFound", c)
    ELSE upload(c, dest_path, <<>>, fault)

upload_from_file(c, fs, source_path, dest_path, fault) ==
    IF source_path \notin DOMAIN fs THEN Raise("FileNotFound", c)
    ELSE upload(c, dest_path, fs[source_path], fault)

\* str.split(sep) for a one-character sep, read left to right from index i:
\* acc is the list of pieces so far, its last piece still growing
RECURSIVE splitFrom(_, _, _, _)
splitFrom(s, sep, i, acc) ==
    IF i > Len(s) THEN acc
    ELSE IF s[i] = sep THEN splitFrom(s, sep, i + 1, Append(acc, <<>>))
    ELSE splitFrom(s, sep, i + 1, [acc EXCEPT ![Len(acc)] = Append(@, s[i])])

split(s, sep) == splitFrom(s, sep, 1, << <<>> >>)

\* rsplit('?', 1)[0]: cut at the last '?' instead of the first
get_url_rsplit(self, file_path, expiry_hours) ==
    LET pieces == split(self.sas_url, "?")
        base_url == IF Len(pieces) = 1 THEN pieces[1]
                    ELSE SubSeq(self.sas_url, 1, Len(self.sas_url) - Len(pieces[Len(pieces)]) - 1)
    IN  base_url \o <<"/">> \o file_path \o <<"?">> \o self.sas_token

get_url(self, file_path, expiry_hours) ==
    LET base_url == split(self.sas_url, "?")[1]
    IN  base_url \o <<"/">> \o file_path \o <<"?">> \o self.sas_token

\* delete without the try/except
delete_uncaught(c, file_path, fault) ==
    LET r == delete_blob(c, file_path, fault)
    IN  IF r.err # "none" THEN Raise(r.err, c) ELSE Return(TRUE, r.c)

delete(c, file_path, fault) ==
    LET r == delete_blob(c, file_path, fault)
    IN  IF r.err # "none" THEN Return(FALSE, c) ELSE Return(TRUE, r.c)

\* `return blob_client.exists` without the call: a bound method, always truthy
exists_uncalled(c, file_path, fault) == Return(TRUE, c)

\* exists wrapped in delete's try/except: every failure becomes False
exists_swallow(c, file_path, fault) ==
    LET r == blob_exists(c, file_path, fault)
    IN  IF r.err # "none" THEN Return(FALSE, c) ELSE Return(r.val, c)

exists(c, file_path, fault) ==
    LET r == blob_exists(c, file_path, fault)
    IN  IF r.err # "none" THEN Raise(r.err, c) ELSE Return(r.val, c)

download(c, file_path, fault) ==
    LET r == download_blob_readall(c, file_path, fault)
    IN  IF r.err # "none" THEN Raise(r.err, c) ELSE Return(r.val, c)

\* makedirs, then open(dest_path, "wb"), then the download inside the with
\* block, then the write; the with block closes the file on every exit
download_to_file(c, fs, ds, file_path, dest_path, fault) ==
    LET ds1 == makedirs(ds, dirname(dest_path))
        fs1 == open_wb(fs, dest_path)
        r == download_blob_readall(c, file_path, fault)
    IN  IF r.err # "none"
        THEN [err |-> r.err, ret |-> "raised", c |-> c, fs |-> fs1, ds |-> ds1]
        ELSE [err |-> "none", ret |-> dest_path, c |-> c,
              fs |-> Put(fs1, dest_path, r.val), ds |-> ds1]

\* container_client.list_blobs() without name_starts_with
list_blobs_unfiltered(c, prefix, fault) ==
    {IF r.err # "none" THEN Raise(r.err, c) ELSE Return(r.val, c) :
        r \in container_list_blobs(c, NoPrefix, fault)}

\* the set of possible outcomes: the order of the names is the backend's
list_blobs(c, prefix, fault) ==
    {IF r.err # "none" THEN Raise(r.err, c) ELSE Return(r.val, c) :
        r \in container_list_blobs(c, prefix, fault)}

----------------------------------------------------------------------------
(* config.py: Settings and the cached get_settings *)

\* values the environment and the .env file can give the three fields
UrlTwoMarks == <<"h", "/", "c", "?", "a", "?", "b">>
UrlPlain == <<"h", "/", "d">>
TokenOne == <<"s", "=", "1">>
TokenTwo == <<"s", "=", "2">>
NameOne == <<"c">>

NoVars == [n \in {} |-> <<>>]
EnvFull == [sas_url |-> UrlTwoMarks, sas_token |-> TokenOne, azure_blob_name |-> NameOne]
EnvChoices == {NoVars, EnvFull, [sas_token |-> TokenTwo]}
DotEnvChoices == {NoVars, [sas_url |-> UrlPlain, sas_token |-> TokenTwo]}

\* one field of Settings: the environment variable, else the .env entry,
\* else the class default ""
Field(e, d, name) ==
    IF name \in DOMAIN e THEN e[name]
    ELSE IF name \in DOMAIN d THEN d[name]
    ELSE <<>>

\* Settings(): a new instance, `id` standing for the object's identity
Settings(id, e, d) ==
    [id |-> id,
     storage_type |-> "azure",
     azure_blob_name |-> Field(e, d, "azure_blob_name"),
     sas_url |-> Field(e, d, "sas_url"),
     sas_token |-> Field(e, d, "sas_token")]

\* get_settings without @lru_cache
get_settings_uncached(ch, n, e, d) ==
    LET inst == Settings(n + 1, e, d)
    IN  [ret |-> inst, cache |-> ch, loads |-> n + 1]

\* @lru_cache get_settings(): [ret, cache, loads] of one call
get_settings(ch, n, e, d) ==
    IF ch # <<>>
    THEN [ret |-> ch[1], cache |-> ch, loads |-> n]
    ELSE LET inst == Settings(n + 1, e, d)
         IN  [ret |-> inst, cache |-> <<inst>>, loads |-> n + 1]

\* get_storage(): the adapter built from the module global `settings`
get_storage(st) ==
    AzureBlobStorage(st.sas_url, st.sas_token, st.azure_blob_name)

----------------------------------------------------------------------------
(* generate_storage_path *)

Urls == {"https://a/1.png", "https://a/2.png"}
PrefixChoices == {<<"p", "r", "o", "c", "e", "s", "s", "e", "d">>, <<"r", "a", "w">>}

Date(y, m, d) == [year |-> y, month |-> m, day |-> d]
StartDates == {Date(2025, 12, 31), Date(2026, 1, 11), Date(2026, 11, 1), Date(2024, 2, 28)}

IsLeap(y) == (y % 4 = 0 /\ y % 100 # 0) \/ y % 400 = 0
DaysIn(y, m) ==
    IF m = 2 THEN (IF IsLeap(y) THEN 29 ELSE 28)
    ELSE IF m \in {4, 6, 9, 11} THEN 30 ELSE 31

\* the UTC date one day after d
NextDay(d) ==
    IF d.day < DaysIn(d.year, d.month) THEN Date(d.year, d.month, d.day + 1)
    ELSE IF d.month < 12 THEN Date(d.year, d.month + 1, 1)
    ELSE Date(d.year + 1, 1, 1)

Digit(n) == <<"0", "1", "2", "3", "4", "5", "6", "7", "8", "9">>[n + 1]

\* str(n) / format(n, "d") for n >= 0
RECURSIVE Dec(_)
Dec(n) == IF n < 10 THEN <<Digit(n)>> ELSE Append(Dec(n \div 10), Digit(n % 10))

\* format(n, "d"): no zero padding
NoPad(n) == Dec(n)

\* format(n, "02d") for n >= 0
Pad2(n) == IF n < 10 THEN <<"0">> \o Dec(n) ELSE Dec(n)

\* hashlib.md5(url.encode()).hexdigest() of the urls of the model
md5_hexdigest(url) ==
    CASE url = "https://a/1.png" ->
           <<"5","4","d","f","2","9","b","3","a","7","7","a","3","6","0","0",
             "8","8","f","d","0","f","0","e","f","f","3","0","4","0","2","c">>
      [] url = "https://a/2.png" ->
           <<"1","4","9","4","5","a","1","0","1","8","d","8","3","9","1","9",
             "2","2","6","7","4","b","0","b","5","a","c","0","b","a","5","d">>

generate_storage_path(original_url, prefix, utcnow) ==
    LET url_hash == md5_hexdigest(original_url)
    IN  prefix \o <<"/">> \o Dec(utcnow.year) \o <<"/">> \o Pad2(utcnow.month)
          \o <<"/">> \o Pad2(utcnow.day) \o <<"/">> \o url_hash
          \o <<".", "j", "p", "g">>

----------------------------------------------------------------------------
(* Initial states *)

NoCall == [op |-> "none"]
Opt(d, k) == IF k \in DOMAIN d THEN <<d[k]>> ELSE <<>>

\* the Settings a process can load
Loadable == {Settings(1, e, d) : e \in EnvChoices, d \in DotEnvChoices}

FilesIdle == files = <<>> /\ dirs = {Cwd}
CfgIdle ==
    /\ env = NoVars /\ dotenv = NoVars /\ cache = <<>> /\ settings = <<>>
    /\ loads = 0 /\ returned = <<>>
PathIdle == now = Date(2025, 12, 31) /\ ticks = 0 /\ paths = {}

\* an adapter from get_storage(), over a container that may hold blobs already
Init ==
    /\ container \in Dict(Keys, Bytes)
    /\ last = NoCall /\ written = <<>>
    /\ adapter \in {<<get_storage(s)>> : s \in Loadable}
    /\ FilesIdle /\ CfgIdle /\ PathIdle

----------------------------------------------------------------------------
(* The adapter's methods as steps of the caller, on the blob names KS *)

Call(op, args, pre, fault, out) ==
    [op |-> op, args |-> args, pre |-> pre, fault |-> fault,
     err |-> out.err, ret |-> out.ret]

Upload(KS) ==
    \E k \in KS, data \in Bytes, fault \in Faults :
        LET out == upload(container, k, data, fault)
        IN  /\ container' = out.c
            /\ written' = IF out.err = "none" THEN Put(written, k, data) ELSE written
            /\ last' = Call("upload", [key |-> k, data |-> data],
                            Opt(container, k), fault, out)
            /\ UNCHANGED <<files, dirs, adapter, cfgVars, pathVars>>

UploadFromFile(KS) ==
    \E src \in LocalPaths, k \in KS, fault \in Faults :
        LET out == upload_from_file(container, files, src, k, fault)
        IN  /\ container' = out.c
            /\ written' = IF out.err = "none" THEN Put(written, k, files[src])
                          ELSE written
            /\ last' = Call("upload_from_file", [source |-> src, key |-> k],
                            [blob |-> Opt(container, k), file |-> Opt(files, src)], fault,
                            out)
            /\ UNCHANGED <<files, dirs, adapter, cfgVars, pathVars>>

GetUrl(KS) ==
    \E k \in KS, hours \in {1, 24} :
        /\ last' = Call("get_url", [key |-> k, expiry_hours |-> hours],
                        Opt(container, k), "none",
                        Return(get_url(adapter[1], k, hours), container))
        /\ UNCHANGED <<container, written, files, dirs, adapter, cfgVars, pathVars>>

Delete(KS) ==
    \E k \in KS, fault \in Faults :
        LET out == delete(container, k, fault)
        IN  /\ container' = out.c
            /\ written' = IF out.err = "none" /\ out.ret THEN Remove(written, k)
                          ELSE written
            /\ last' = Call("delete", [key |-> k], Opt(container, k), fault, out)
            /\ UNCHANGED <<files, dirs, adapter, cfgVars, pathVars>>

Exists(KS) ==
    \E k \in KS, fault \in Faults :
        LET out == exists(container, k, fault)
        IN  /\ container' = out.c
            /\ last' = Call("exists", [key |-> k], Opt(container, k), fault, out)
            /\ UNCHANGED <<written, files, dirs, adapter, cfgVars, pathVars>>

Download(KS) ==
    \E k \in KS, fault \in Faults :
        LET out == download(container, k, fault)
        IN  /\ container' = out.c
            /\ last' = Call("download", [key |-> k], Opt(container, k), fault, out)
            /\ UNCHANGED <<written, files, dirs, adapter, cfgVars, pathVars>>

DownloadToFile(KS) ==
    \E k \in KS, dest \in LocalPaths, fault \in Faults :
        LET out == download_to_file(container, files, dirs, k, dest, fault)
        IN  /\ container' = out.c
            /\ files' = out.fs
            /\ dirs' = out.ds
            /\ last' = Call("download_to_file", [key |-> k, dest |-> dest],
                            [blob |-> Opt(container, k), file |-> Opt(files, dest)], fault,
                            out)
            /\ UNCHANGED <<written, adapter, cfgVars, pathVars>>

ListBlobs ==
    \E prefix \in Prefixes, fault \in Faults :
        \E out \in list_blobs(container, prefix, fault) :
            /\ container' = out.c
            /\ last' = Call("list_blobs", [prefix |-> prefix], <<>>, fault, out)
            /\ UNCHANGED <<written, files, dirs, adapter, cfgVars, pathVars>>

\* the caller writes a local file (test_blob.py: the dummy file)
WriteLocalFile ==
    \E p \in LocalPaths, data \in Bytes :
        /\ dirname(p) \in dirs
        /\ files' = Put(files, p, data)
        /\ last' = [op |-> "write_local", args |-> [path |-> p, data |-> data]]
        /\ UNCHANGED <<container, written, dirs, adapter, cfgVars, pathVars>>

\* the caller removes a local file (test_blob.py: the clean up)
RemoveLocalFile ==
    \E p \in DOMAIN files :
        /\ files' = Remove(files, p)
        /\ last' = [op |-> "remove_local", args |-> [path |-> p]]
        /\ UNCHANGED <<container, written, dirs, adapter, cfgVars, pathVars>>

\* the blob operations, on two blob names
Next ==
    \/ Upload(Keys) \/ GetUrl(Keys) \/ Delete(Keys) \/ Exists(Keys)
    \/ Download(Keys) \/ ListBlobs

Spec == Init /\ [][Next]_vars

\* the operations that read and write local files, on one blob name
InitFile ==
    /\ container \in Dict({KeyHello}, Bytes)
    /\ last = NoCall /\ written = <<>>
    /\ adapter = <<get_storage(Settings(1, EnvFull, NoVars))>>
    /\ FilesIdle /\ CfgIdle /\ PathIdle

NextFile ==
    \/ UploadFromFile({KeyHello}) \/ DownloadToFile({KeyHello})
    \/ Upload({KeyHello}) \/ Download({KeyHello}) \/ Delete({KeyHello})
    \/ WriteLocalFile \/ RemoveLocalFile

SpecFile == InitFile /\ [][NextFile]_vars

----------------------------------------------------------------------------
(* The process: imports, get_settings() calls, a changing environment *)

StoreIdle == container = <<>> /\ last = NoCall /\ written = <<>> /\ FilesIdle

InitCfg ==
    /\ env \in EnvChoices /\ dotenv \in DotEnvChoices
    /\ cache = <<>> /\ settings = <<>> /\ loads = 0 /\ returned = <<>>
    /\ adapter = <<>>
    /\ StoreIdle /\ PathIdle

\* any caller's get_settings()
GetSettings ==
    /\ Len(returned) < MaxCalls
    /\ LET r == get_settings(cache, loads, env, dotenv)
       IN  /\ cache' = r.cache
           /\ loads' = r.loads
           /\ returned' = Append(returned, r.ret)
    /\ UNCHANGED <<env, dotenv, settings, adapter, storeVars, pathVars>>

\* import storage: the module body runs once, settings = get_settings()
ImportStorage ==
    /\ settings = <<>>
    /\ Len(returned) < MaxCalls
    /\ LET r == get_settings(cache, loads, env, dotenv)
       IN  /\ cache' = r.cache
           /\ loads' = r.loads
           /\ returned' = Append(returned, r.ret)
           /\ settings' = <<r.ret>>
    /\ UNCHANGED <<env, dotenv, adapter, storeVars, pathVars>>

GetStorage ==
    /\ settings # <<>>
    /\ adapter' = <<get_storage(settings[1])>>
    /\ UNCHANGED <<cfgVars, storeVars, pathVars>>

\* the environment variables change while the process runs
SetEnv ==
    /\ env' \in EnvChoices \ {env}
    /\ UNCHANGED <<dotenv, cache, settings, loads, returned, adapter, storeVars, pathVars>>

\* the .env file is rewritten while the process runs
WriteDotEnv ==
    /\ dotenv' \in DotEnvChoices \ {dotenv}
    /\ UNCHANGED <<env, cache, settings, loads, returned, adapter, storeVars, pathVars>>

NextCfg == GetSettings \/ ImportStorage \/ GetStorage \/ SetEnv \/ WriteDotEnv

SpecCfg == InitCfg /\ [][NextCfg]_vars

----------------------------------------------------------------------------
(* Calls of generate_storage_path while the UTC clock advances *)

InitPath ==
    /\ now \in StartDates /\ ticks = 0 /\ paths = {}
    /\ adapter = <<>>
    /\ StoreIdle /\ CfgIdle

\* midnight UTC passes
Tick ==
    /\ ticks < MaxTicks
    /\ now' = NextDay(now)
    /\ ticks' = ticks + 1
    /\ UNCHANGED <<paths, adapter, storeVars, cfgVars>>

GenerateStoragePath ==
    \E url \in Urls, prefix \in PrefixChoices :
        /\ paths' = paths \cup
               {[url |-> url, prefix |-> prefix, date |-> now,
                 ret |-> generate_storage_path(url, prefix, now)]}
        /\ UNCHANGED <<now, ticks, adapter, storeVars, cfgVars>>

NextPath == Tick \/ GenerateStoragePath

SpecPath == InitPath /\ [][NextPath]_vars

----------------------------------------------------------------------------
(* Properties.  A call that raises has returned nothing: what a property   *)
(* says an operation returns is said of the calls that return.             *)

BackendFaults == Faults \ {"none"}
Returned(op) == last.op = op /\ last.err = "none"
OtherBlobsKept(k) == \A o \in Keys \ {k} : Opt(container', o) = Opt(container, o)

\* C1: upload(K, B) returns K, and as long as no other upload or delete of K
\* completes, download(K) returns exactly B (it fails only when the backend
\* fails the call); the bytes upload_from_file read from the local file are
\* the bytes download_to_file leaves in the destination file.
RoundTripFidelity ==
    /\ (last.op \in {"upload", "upload_from_file"} /\ last.err = "none")
          => last.ret = last.args.key
    /\ (last.op = "download" /\ last.args.key \in DOMAIN written)
          => \/ last.err = "none" /\ last.ret = written[last.args.key]
             \/ last.err \in BackendFaults
    /\ (last.op = "download_to_file" /\ last.args.key \in DOMAIN written)
          => \/ /\ last.err = "none"
                /\ last.ret = last.args.dest
                /\ Opt(files, last.args.dest) = <<written[last.args.key]>>
             \/ last.err \in BackendFaults

\* a file was uploaded with upload_from_file and has come back, non-empty,
\* through download_to_file into another path that held other bytes
RoundTripWitness ==
    /\ Returned("download_to_file")
    /\ last.args.key \in DOMAIN written
    /\ last.args.dest = PathDown
    /\ PathLocal \in DOMAIN files
    /\ files[PathLocal] = written[last.args.key]
    /\ files[PathDown] # <<>>
    /\ last.pre.file # <<files[PathDown]>>

\* C2: an upload to a name that holds a blob is never refused for that: it
\* fails only when the backend fails the call; a completed upload leaves its
\* bytes under the name, every name holds the bytes of its latest completed
\* upload, and download returns them.
LastWriteWins ==
    /\ last.op = "upload" =>
          /\ last.err \in {"none"} \cup BackendFaults
          /\ last.fault = "none" => last.err = "none"
          /\ last.err = "none" => Opt(container, last.args.key) = <<last.args.data>>
    /\ \A k \in DOMAIN written : Opt(container, k) = <<written[k]>>
    /\ (Returned("download") /\ last.args.key \in DOMAIN written)
          => last.ret = written[last.args.key]

\* an upload replaced different bytes that an earlier upload had put there
OverwriteWitness ==
    /\ Returned("upload")
    /\ last.pre # <<>>
    /\ last.pre # <<last.args.data>>
    /\ last.args.data # <<>>

\* C3: exists(K) returns true exactly when K holds a blob: true after a
\* completed upload of K with no completed delete since, false when K holds
\* nothing; exists changes nothing in the container.
ExistsStep ==
    /\ (last'.op = "exists" /\ last'.err = "none") =>
          /\ last'.ret = (last'.args.key \in DOMAIN container)
          /\ last'.args.key \in DOMAIN written => last'.ret = TRUE
    /\ last'.op = "exists" => container' = container
    /\ (last'.op \in {"upload"} /\ last'.err = "none")
          => last'.args.key \in DOMAIN container'
ExistsExact == [][ExistsStep]_vars

\* exists has answered true for a blob and false for a name holding none
ExistsWitness ==
    /\ Returned("exists")
    /\ last.ret = FALSE
    /\ last.args.key = KeyHello
    /\ KeyOther \in DOMAIN written

\* C4 as stated: delete of a name that holds a blob returns true and the blob
\* is gone; delete of a name that holds none returns false.
DeletePresentReturnsTrue ==
    last.op = "delete" =>
        /\ last.err = "none"
        /\ last.ret = (last.pre # <<>>)
        /\ last.ret => last.args.key \notin DOMAIN container

\* C4 amended: delete never raises; it returns true exactly when the name
\* held a blob and the backend served the deletion, and then the name holds
\* nothing and exists answers false; otherwise it returns false and the
\* container is as it was.  Blobs under other names are never touched.
DeleteStep ==
    /\ last'.op = "delete" =>
          /\ last'.err = "none"
          /\ last'.ret = (last'.args.key \in DOMAIN container /\ last'.fault = "none")
          /\ last'.ret => last'.args.key \notin DOMAIN container'
          /\ ~last'.ret => container' = container
          /\ OtherBlobsKept(last'.args.key)
    /\ ( /\ last.op = "delete" /\ last.ret
         /\ last'.op = "exists" /\ last'.err = "none"
         /\ last'.args.key = last.args.key )
          => last'.ret = FALSE
DeleteOutcome == [][DeleteStep]_vars

\* a second delete of a name has returned false, another blob still there
DeleteWitness ==
    /\ last.op = "delete"
    /\ last.ret = FALSE
    /\ last.fault = "none"
    /\ last.args.key = KeyHello
    /\ KeyHello \notin DOMAIN written
    /\ KeyOther \in DOMAIN container

\* the part of url before its first "?", the whole url when it has none
BeforeFirstMark(url) ==
    LET marks == {i \in 1..Len(url) : url[i] = "?"}
    IN  IF marks = {} THEN url
        ELSE SubSeq(url, 1, (CHOOSE i \in marks : \A j \in marks : i <= j) - 1)

\* C5: get_url(key, expiry_hours) is base/key?token, base being the SAS URL
\* up to its first "?"; it returns, whether or not the key holds a blob and
\* whatever expiry_hours is, and leaves the container alone.
GetUrlStep ==
    last'.op = "get_url" =>
        /\ last'.err = "none"
        /\ last'.ret = BeforeFirstMark(adapter[1].sas_url) \o <<"/">>
                         \o last'.args.key \o <<"?">> \o adapter[1].sas_token
        /\ container' = container
GetUrlFormat == [][GetUrlStep]_vars

\* a URL was built for a name holding no blob, from a SAS URL with two "?"
GetUrlWitness ==
    /\ last.op = "get_url"
    /\ last.pre = <<>>
    /\ last.args.expiry_hours = 1
    /\ adapter[1].sas_url = UrlTwoMarks
    /\ last.ret = <<"h", "/", "c", "/">> \o last.args.key \o <<"?">> \o TokenOne

\* p is an initial part of k
IsPrefixOf(p, k) == Len(p) <= Len(k) /\ \A i \in 1..Len(p) : k[i] = p[i]
Listed == {last.ret[i] : i \in 1..Len(last.ret)}

\* C6: list_blobs(prefix) returns the names that hold a blob and start with
\* prefix, each once; without a prefix, every name that holds a blob; a blob
\* uploaded under test_folder/ and not deleted is in list_blobs("test_folder/").
ListBlobsExact ==
    Returned("list_blobs") =>
        LET prefix == last.args.prefix
            want == {k \in DOMAIN container : prefix = NoPrefix \/ IsPrefixOf(prefix, k)}
        IN  /\ Listed = want
            /\ Len(last.ret) = Cardinality(want)
            /\ prefix = NoPrefix => Listed = DOMAIN container
            /\ (prefix = PrefixTest /\ KeyHello \in DOMAIN written) => KeyHello \in Listed
            /\ \A k \in Keys \ DOMAIN container : k \notin Listed

\* list_blobs("test_folder/") has returned the uploaded blob and left out the
\* blob held under another name
ListBlobsWitness ==
    /\ Returned("list_blobs")
    /\ last.args.prefix = PrefixTest
    /\ last.ret = <<KeyHello>>
    /\ KeyHello \in DOMAIN written
    /\ KeyOther \in DOMAIN container

\* C9: delete never raises and answers false when the backend call fails,
\* true only when the backend deleted the blob; upload, download, exists and
\* list_blobs raise the backend's error; a failed call changes no blob.
ErrorPolicyStep ==
    /\ last'.op = "delete" =>
          /\ last'.err = "none"
          /\ (last'.fault # "none" \/ last'.args.key \notin DOMAIN container)
                => last'.ret = FALSE
          /\ last'.ret => (last'.fault = "none" /\ last'.args.key \in DOMAIN container
                           /\ last'.args.key \notin DOMAIN container')
          /\ ~last'.ret => container' = container
    /\ (last'.op \in {"upload", "download", "exists", "list_blobs"}
          /\ last'.fault # "none") => last'.err = last'.fault
    /\ (last'.op = "download" /\ last'.fault = "none"
          /\ last'.args.key \notin DOMAIN container) => last'.err = "ResourceNotFound"
    /\ (last'.op \in {"upload", "download", "exists", "list_blobs"}
          /\ last'.err # "none") => container' = container
ErrorPolicy == [][ErrorPolicyStep]_vars

\* exists has raised the backend's error for a name that holds a blob
ErrorPolicyWitness ==
    /\ last.op = "exists"
    /\ last.err = "permission"
    /\ last.pre # <<>>

\* C10 as stated: a download_to_file whose download fails leaves the file at
\* local_path as it was.
FailedDownloadKeepsFile ==
    (last.op = "download_to_file" /\ last.err # "none")
        => Opt(files, last.args.dest) = last.pre.file

DigitVal(ch) == CHOOSE n \in 0..9 : Digit(n) = ch
IsDigits(w) == \A i \in 1..Len(w) : \E n \in 0..9 : Digit(n) = w[i]
RECURSIVE NumVal(_)
NumVal(w) == IF w = <<>> THEN 0
             ELSE 10 * NumVal(SubSeq(w, 1, Len(w) - 1)) + DigitVal(w[Len(w)])

\* <prefix>/<year>/<2 digits>/<2 digits>/ : the date segments of a call
DateSegments(c, ylen) ==
    SubSeq(c.ret, 1, Len(c.prefix) + ylen + 8)
WellFormed(c) ==
    \E ylen \in 1..5 :
        LET n == Len(c.prefix)
            y == SubSeq(c.ret, n + 2, n + 1 + ylen)
            m == SubSeq(c.ret, n + ylen + 3, n + ylen + 4)
            d == SubSeq(c.ret, n + ylen + 6, n + ylen + 7)
        IN  /\ c.ret = c.prefix \o <<"/">> \o y \o <<"/">> \o m \o <<"/">> \o d
                         \o <<"/">> \o md5_hexdigest(c.url) \o <<".", "j", "p", "g">>
            /\ IsDigits(y) /\ IsDigits(m) /\ IsDigits(d)
            /\ y[1] # "0"
            /\ NumVal(y) = c.date.year
            /\ NumVal(m) = c.date.month
            /\ NumVal(d) = c.date.day

\* C7: on one UTC day the same url and prefix give the same string, of the
\* form <prefix>/<year>/<month, 2 digits>/<day, 2 digits>/<md5 of url>.jpg;
\* two urls with different digests give different strings with the same
\* date segments; one url on two days gives two different strings.
StoragePathDeterministic ==
    \A a, b \in paths :
        /\ WellFormed(a)
        /\ (a.url = b.url /\ a.prefix = b.prefix /\ a.date = b.date) => a.ret = b.ret
        /\ ( /\ a.url # b.url /\ a.prefix = b.prefix /\ a.date = b.date
             /\ md5_hexdigest(a.url) # md5_hexdigest(b.url) )
              => /\ a.ret # b.ret
                 /\ \E ylen \in 1..5 : DateSegments(a, ylen) = DateSegments(b, ylen)
                       /\ Len(a.ret) = Len(a.prefix) + ylen + 8 + 36
        /\ (a.url = b.url /\ a.prefix = b.prefix /\ a.date # b.date) => a.ret # b.ret

\* paths were generated for one url on 2026-01-11 and the day after, and
\* for another url on one of those days
StoragePathWitness ==
    \E a, b, c \in paths :
        /\ a.url = b.url /\ a.prefix = b.prefix
        /\ a.date = Date(2026, 1, 11) /\ b.date = Date(2026, 1, 12)
        /\ c.url # a.url /\ c.prefix = a.prefix /\ c.date = a.date

\* C8: only the first get_settings() call builds a Settings, from the
\* environment and .env of that moment; every call returns that instance,
\* whatever the environment has become, and get_storage() builds its adapter
\* from that instance's sas_url, sas_token and azure_blob_name.
SettingsStep ==
    /\ (returned = <<>> /\ returned' # <<>>) =>
          /\ loads' = 1
          /\ returned'[1] = Settings(1, env, dotenv)
    /\ loads' <= 1
    /\ \A i \in 1..Len(returned') : returned'[i] = returned'[1]
    /\ returned # <<>> => (loads' = loads /\ returned'[1] = returned[1])
    /\ adapter' # <<>> =>
          /\ returned' # <<>>
          /\ adapter'[1].sas_url = returned'[1].sas_url
          /\ adapter'[1].sas_token = returned'[1].sas_token
          /\ adapter'[1].container_name = returned'[1].azure_blob_name
SettingsLoadedOnce == [][SettingsStep]_vars

\* get_settings() was called again and an adapter built after the
\* environment had changed from what the first call loaded
SettingsWitness ==
    /\ Len(returned) >= 3
    /\ adapter # <<>>
    /\ Settings(1, env, dotenv) # returned[1]
    /\ adapter[1].sas_url = UrlPlain
    /\ Field(env, dotenv, "sas_url") = UrlTwoMarks

====
